---- MODULE Spec2Model ----
(***************************************************************************)
(* Model of the fetch-instagram-profile edge function                      *)
(* (supabase/functions/fetch-instagram-profile/index.ts).                  *)
(*                                                                         *)
(* Every request runs the Deno.serve handler.  The handler is sequential;  *)
(* each `await` on an external collaborator (the instagram_profiles table, *)
(* the provider API, the picture host, the instagram_profile_pictures      *)
(* bucket) is one step of the invocation, and invocations interleave at    *)
(* those steps.  The table and the bucket are the only shared state.       *)
(*                                                                         *)
(* Time is counted in days (the code counts milliseconds; 30 days of       *)
(* milliseconds does not fit the model checker's integers).                *)
(***************************************************************************)
EXTENDS Integers, Sequences, FiniteSets, TLC

(***************************************************************************)
(* Bounds of the model.                                                    *)
(***************************************************************************)
NumInvocations == 2          \* execution contexts the platform runs concurrently
MaxLen == 3                  \* longest username enumerated character by character

Invocations == 1..NumInvocations

\* Instants (in days) at which the wall clock is observed.
Times == {0, 30, 31}

(***************************************************************************)
(* Values.                                                                 *)
(***************************************************************************)
\* JavaScript null / undefined of an object-typed or string-typed value.
NULL == [null |-> TRUE]

\* A JavaScript string that is not a username (names, messages).
Str(s) == [str |-> s]

\* A username is a sequence of one-character strings.
Digits == {"1", "2", "3"}
Lower == {"a", "b", "c", "d", "e", "h", "j", "n", "o"}
Upper == {"A", "B", "D", "J"}

toLowerChar(c) ==
    CASE c = "A" -> "a"
      [] c = "B" -> "b"
      [] c = "D" -> "d"
      [] c = "J" -> "j"
      [] OTHER -> c

\* String.prototype.toLowerCase
toLowerCase(s) == [i \in 1..Len(s) |-> toLowerChar(s[i])]

\* s.replace(/^@/, ""): drops one leading '@' only.
stripLeadingAt_once(s) == IF s # <<>> /\ Head(s) = "@" THEN Tail(s) ELSE s

\* s.replace(/^@+/, ""): drops the longest prefix of '@' characters.
RECURSIVE stripLeadingAt(_)
stripLeadingAt(s) ==
    IF s # <<>> /\ Head(s) = "@" THEN stripLeadingAt(Tail(s)) ELSE s

\* usernameFormatted = username.toLowerCase().replace(/^@+/, "")
formatUsername(username) == stripLeadingAt(toLowerCase(username))

\* INSTAGRAM_USERNAME_REGEX.test(s), lookahead by lookahead:
\*   /^(?!\d+$)(?!.*[_.]{2})(?!\.)(?!.*\.$)[a-z\d_.]+$/
allDigits(s) == s # <<>> /\ \A i \in 1..Len(s) : s[i] \in Digits
hasDoubleSeparator(s) ==
    \E i \in 1..(Len(s) - 1) : s[i] \in {"_", "."} /\ s[i + 1] \in {"_", "."}
startsWithDot(s) == s # <<>> /\ s[1] = "."
endsWithDot(s) == s # <<>> /\ s[Len(s)] = "."
allowedChars(s) ==
    s # <<>> /\ \A i \in 1..Len(s) : s[i] \in Lower \cup Digits \cup {"_", "."}

\* The pattern without its last lookahead (?!.*\.$).
INSTAGRAM_USERNAME_REGEX_test_noTrailingDot(s) ==
    /\ ~allDigits(s)
    /\ ~hasDoubleSeparator(s)
    /\ ~startsWithDot(s)
    /\ allowedChars(s)

INSTAGRAM_USERNAME_REGEX_test(s) ==
    /\ ~allDigits(s)
    /\ ~hasDoubleSeparator(s)
    /\ ~startsWithDot(s)
    /\ ~endsWithDot(s)
    /\ allowedChars(s)

\* Request bodies { username } the callers send.
UsernameInputs ==
    { <<"a">>, <<"@", "A">>, <<"1", "2">>, <<"a", "_", "_", "b">>, <<"a", ".">>, <<"@">> }

\* Every string of at most MaxLen characters over a small alphabet, and the
\* usernames "john__doe", "123", ".abc", "abc.", "John.Doe".
EnumAlphabet == {"a", "A", "1", "_", ".", "@"}

UsernameStrings ==
    UNION { [1..n -> EnumAlphabet] : n \in 0..MaxLen }
    \cup { <<"j", "o", "h", "n", "_", "_", "d", "o", "e">>,
           <<"1", "2", "3">>,
           <<".", "a", "b", "c">>,
           <<"a", "b", "c", ".">>,
           <<"J", "o", "h", "n", ".", "D", "o", "e">> }


(***************************************************************************)
(* The provider (HikerAPI) and the picture host.                           *)
(***************************************************************************)
\* URL of a picture on the provider's CDN.
ProviderPicUrl(pk) == [host |-> "provider", path |-> [dir |-> pk, file |-> "pic.jpg"]]

\* HikerApiProfilePayload values the provider may answer with.  The same
\* username can resolve to different accounts over time, and an account's
\* data changes between fetches.
Payloads ==
    { [pk |-> 1, username |-> <<"a">>, is_private |-> FALSE, is_verified |-> TRUE,
       is_business |-> FALSE, full_name |-> Str("Ann"),
       profile_pic_url |-> ProviderPicUrl(1), biography |-> Str("bio"),
       external_url |-> NULL],
      [pk |-> 2, username |-> <<"a">>, is_private |-> TRUE, is_verified |-> FALSE,
       is_business |-> TRUE, full_name |-> NULL,
       profile_pic_url |-> NULL, biography |-> NULL,
       external_url |-> Str("https://a.example")] }

statusText(status) ==
    CASE status = 200 -> "OK"
      [] status = 404 -> "Not Found"
      [] status = 503 -> "Service Unavailable"
      [] OTHER -> ""

\* Response.ok
ok(res) == res.status >= 200 /\ res.status <= 299

\* What `await fetch(...)` of the provider endpoint can produce: a response
\* (body is a payload, or NULL when it is not parseable JSON), or a rejection
\* (the network call itself failed).
UpstreamResults ==
    { [kind |-> "response", status |-> 200, body |-> p] : p \in Payloads }
    \cup { [kind |-> "response", status |-> s, body |-> NULL] : s \in {200, 404, 503} }
    \cup { [kind |-> "rejected"] }

\* fetchProfile without the 404 case: not-found is thrown like any other status.
fetchProfile_no404(res) ==
    IF res.kind = "rejected"
    THEN [thrown |-> TRUE, message |-> [text |-> "error sending request"], value |-> NULL]
    ELSE IF ~ok(res)
    THEN [thrown |-> TRUE,
          message |-> [text |-> "Failed to fetch Instagram profile",
                       status |-> res.status, reason |-> statusText(res.status)],
          value |-> NULL]
    ELSE IF res.body = NULL
    THEN [thrown |-> TRUE, message |-> [text |-> "Unexpected token"], value |-> NULL]
    ELSE [thrown |-> FALSE, message |-> NULL, value |-> res.body]

\* fetchProfile throwing a fixed message that drops the status and reason.
fetchProfile_fixedMessage(res) ==
    IF res.kind = "rejected"
    THEN [thrown |-> TRUE, message |-> [text |-> "error sending request"], value |-> NULL]
    ELSE IF res.status = 404
    THEN [thrown |-> FALSE, message |-> NULL, value |-> NULL]
    ELSE IF ~ok(res)
    THEN [thrown |-> TRUE, message |-> [text |-> "Could not fetch Instagram profile"],
          value |-> NULL]
    ELSE IF res.body = NULL
    THEN [thrown |-> TRUE, message |-> [text |-> "Unexpected token"], value |-> NULL]
    ELSE [thrown |-> FALSE, message |-> NULL, value |-> res.body]

\* fetchProfile: the value it returns, or the Error it throws.
fetchProfile(res) ==
    IF res.kind = "rejected"
    THEN [thrown |-> TRUE, message |-> [text |-> "error sending request"], value |-> NULL]
    ELSE IF res.status = 404
    THEN [thrown |-> FALSE, message |-> NULL, value |-> NULL]
    ELSE IF ~ok(res)
    THEN [thrown |-> TRUE,
          message |-> [text |-> "Failed to fetch Instagram profile",
                       status |-> res.status, reason |-> statusText(res.status)],
          value |-> NULL]
    ELSE IF res.body = NULL
    THEN [thrown |-> TRUE, message |-> [text |-> "Unexpected token"], value |-> NULL]
    ELSE [thrown |-> FALSE, message |-> NULL, value |-> res.body]

\* What `await fetch(url)` of the picture can produce.
DownloadResults ==
    { [kind |-> "response", status |-> 200],
      [kind |-> "response", status |-> 404],
      [kind |-> "rejected"] }

\* downloadProfilePicture: the Blob it returns (named by the URL it came
\* from), null, or a thrown rejection of fetch (there is no try/catch).
downloadProfilePicture(url, res) ==
    IF res.kind = "rejected"
    THEN [thrown |-> TRUE, value |-> NULL]
    ELSE IF ~ok(res)
    THEN [thrown |-> FALSE, value |-> NULL]
    ELSE [thrown |-> FALSE, value |-> [blob |-> url]]

(***************************************************************************)
(* The instagram_profiles table and the instagram_profile_pictures bucket. *)
(***************************************************************************)
Columns ==
    { "id", "username", "full_name", "biography", "external_url", "profile_pic_url",
      "is_private", "is_verified", "is_business", "updated_at" }

\* new Date(t).toISOString() and new Date(iso).getTime()
toISOString(t) == [iso |-> t]
getTime(iso) == iso.iso

\* .select("*").eq("username", u).maybeSingle(): the row when exactly one
\* matches, null without error when none does, an error when several do.
\* `fails` is a failure of the read itself.
maybeSingle(rows, u, fails) ==
    LET match == { r \in rows : r.username = u } IN
    IF fails \/ Cardinality(match) > 1
    THEN [data |-> NULL, error |-> TRUE]
    ELSE IF match = {}
    THEN [data |-> NULL, error |-> FALSE]
    ELSE [data |-> CHOOSE r \in match : TRUE, error |-> FALSE]

\* A plain insert: no conflict target, the new row is added next to the old one.
upsert_insertOnly(rows, obj, onConflict) ==
    rows \cup { [c \in Columns |-> IF c \in DOMAIN obj THEN obj[c] ELSE NULL] }

\* INSERT ... ON CONFLICT (onConflict) DO UPDATE SET <columns of obj>:
\* columns the object does not carry keep their stored value on update and
\* are null on insert.
upsert(rows, obj, onConflict) ==
    LET hit == { r \in rows : r[onConflict] = obj[onConflict] } IN
    IF hit = {}
    THEN rows \cup { [c \in Columns |-> IF c \in DOMAIN obj THEN obj[c] ELSE NULL] }
    ELSE (rows \ hit)
         \cup { [c \in Columns |-> IF c \in DOMAIN obj THEN obj[c] ELSE r[c]] : r \in hit }

\* `${profile.id}/profile_pic.jpg`
picturePath(id) == [dir |-> id, file |-> "profile_pic.jpg"]

\* storage.upload(path, blob, { upsert: true }): overwrites the object.
upload(objects, path, blob) ==
    { o \in objects : o.path # path } \cup { [path |-> path, blob |-> blob] }

\* storage.getPublicUrl(path).data.publicUrl
getPublicUrl(path) == [host |-> "instagram_profile_pictures", path |-> path]

(***************************************************************************)
(* The handler.                                                            *)
(***************************************************************************)
ttlMs == 30                  \* 30 * 24 * 60 * 60 * 1000 ms, in days

\* The freshness test with an inclusive bound: a record of exactly the TTL is fresh.
isFresh_inclusive(now, cached) == now - getTime(cached.updated_at) <= ttlMs

\* The freshness test with a TTL of 6 hours (less than a day).
isFresh_sixHours(now, cached) == now - getTime(cached.updated_at) < 1

isFresh(now, cached) == now - getTime(cached.updated_at) < ttlMs

\* { ...cached, cached: true }
cachedBody(cached) ==
    [k \in DOMAIN cached \cup {"cached"} |-> IF k = "cached" THEN TRUE ELSE cached[k]]

\* The profile stamped with a fixed instant instead of the current time.
newProfile_fixedTimestamp(profileInfo, usernameFormatted, t) ==
    [id |-> profileInfo.pk,
     username |-> usernameFormatted,
     full_name |-> profileInfo.full_name,
     biography |-> profileInfo.biography,
     external_url |-> profileInfo.external_url,
     is_private |-> profileInfo.is_private,
     is_verified |-> profileInfo.is_verified,
     is_business |-> profileInfo.is_business,
     updated_at |-> toISOString(0)]

\* const profile: InstagramProfile = { ... }
newProfile(profileInfo, usernameFormatted, t) ==
    [id |-> profileInfo.pk,
     username |-> usernameFormatted,
     full_name |-> profileInfo.full_name,
     biography |-> profileInfo.biography,
     external_url |-> profileInfo.external_url,
     is_private |-> profileInfo.is_private,
     is_verified |-> profileInfo.is_verified,
     is_business |-> profileInfo.is_business,
     updated_at |-> toISOString(t)]

\* The assignment left out: the profile is returned as it was built.
withPicture_unassigned(profile, url) == profile

\* profile.profile_pic_url = publicUrl
withPicture(profile, url) ==
    [k \in DOMAIN profile \cup {"profile_pic_url"} |->
        IF k = "profile_pic_url" THEN url ELSE profile[k]]

\* The response the runtime sends when the handler's promise rejects.
UnhandledRejection == [status |-> 500, body |-> [text |-> "Internal Server Error"]]

\* The handler's local variables before any is assigned, and after it returned.
NoFrame ==
    [usernameFormatted |-> <<>>, now |-> 0, cached |-> NULL, cacheReadError |-> FALSE,
     profileInfo |-> NULL, profile |-> NULL, profilePicture |-> NULL]

\* What an invocation has done so far: the normalized username it computed and
\* the result of every external call it made, in order, per collaborator.
NoLog ==
    [username |-> <<>>, read |-> <<>>, upstream |-> <<>>, download |-> <<>>,
     upload |-> <<>>, upsert |-> <<>>]

VARIABLES
    clock,              \* wall clock, in days
    store,              \* rows of instagram_profiles
    bucket,             \* objects of instagram_profile_pictures
    pc,                 \* pc[i]: the await invocation i is suspended at
    frame,              \* frame[i]: the handler's local variables
    log,                \* log[i]: the external calls invocation i has made
    response            \* response[i]: the Response invocation i returned

vars == <<clock, store, bucket, pc, frame, log, response>>

Init ==
    /\ clock = 0
    /\ store = {}
    /\ bucket = {}
    /\ pc = [i \in Invocations |-> "idle"]
    /\ frame = [i \in Invocations |-> NoFrame]
    /\ log = [i \in Invocations |-> NoLog]
    /\ response = [i \in Invocations |-> NULL]

\* return new Response(...): the invocation ends and its locals are gone.
return(i, res) ==
    /\ response' = [response EXCEPT ![i] = res]
    /\ pc' = [pc EXCEPT ![i] = "done"]
    /\ frame' = [frame EXCEPT ![i] = NoFrame]

\* The handler suspends at its next await.
await(i, at, locals) ==
    /\ pc' = [pc EXCEPT ![i] = at]
    /\ frame' = [frame EXCEPT ![i] = locals]
    /\ UNCHANGED response

logged(i, call, result) == log' = [log EXCEPT ![i][call] = Append(@, result)]

\* Time passes.
Tick ==
    /\ \E t \in Times : t > clock /\ clock' = t
    /\ UNCHANGED <<store, bucket, pc, frame, log, response>>

\* The handler without the early return on an invalid username.
Receive_noValidation(i, username) ==
    /\ pc[i] = "idle"
    /\ \A j \in Invocations : j < i => pc[j] # "idle"
    /\ LET u == formatUsername(username) IN
       /\ log' = [log EXCEPT ![i].username = u]
       /\ await(i, "read", [frame[i] EXCEPT !.usernameFormatted = u, !.now = clock])
    /\ UNCHANGED <<clock, store, bucket>>

\* Lines 29-48: parse the body, format and validate the username, read the
\* clock.  A request is dispatched to the first free execution context.
Receive(i, username) ==
    /\ pc[i] = "idle"
    /\ \A j \in Invocations : j < i => pc[j] # "idle"
    /\ LET u == formatUsername(username) IN
       /\ log' = [log EXCEPT ![i].username = u]
       /\ IF ~INSTAGRAM_USERNAME_REGEX_test(u)
          THEN return(i, [status |-> 400,
                          body |-> [error |-> Str("Invalid Instagram username")]])
          ELSE await(i, "read", [frame[i] EXCEPT !.usernameFormatted = u, !.now = clock])
    /\ UNCHANGED <<clock, store, bucket>>

\* Lines 50-72: the cache read completes; a fresh row is returned at once.
CacheRead(i, fails) ==
    /\ pc[i] = "read"
    /\ LET res == maybeSingle(store, frame[i].usernameFormatted, fails) IN
       /\ logged(i, "read", res)
       /\ IF res.data # NULL /\ isFresh(frame[i].now, res.data)
          THEN return(i, [status |-> 200, body |-> cachedBody(res.data)])
          ELSE await(i, "fetch", [frame[i] EXCEPT !.cached = res.data,
                                                  !.cacheReadError = res.error])
    /\ UNCHANGED <<clock, store, bucket>>

\* The provider call wrapped in a retry loop: a thrown error repeats the call.
FetchUpstream_retry(i, res) ==
    /\ pc[i] = "fetch"
    /\ logged(i, "upstream", res)
    /\ LET got == fetchProfile(res) IN
       IF got.thrown
       THEN await(i, "fetch", frame[i])
       ELSE IF got.value = NULL
       THEN return(i, [status |-> 404,
                       body |-> [error |-> Str("Instagram profile not found")]])
       ELSE await(i, IF got.value.profile_pic_url # NULL THEN "download" ELSE "upsert",
                  [frame[i] EXCEPT
                      !.profileInfo = got.value,
                      !.profile = newProfile(got.value, frame[i].usernameFormatted, clock)])
    /\ UNCHANGED <<clock, store, bucket>>

\* Lines 74-104: the provider call completes; errors and not-found return,
\* otherwise the profile object is built.
FetchUpstream(i, res) ==
    /\ pc[i] = "fetch"
    /\ logged(i, "upstream", res)
    /\ LET got == fetchProfile(res) IN
       IF got.thrown
       THEN return(i, [status |-> 500, body |-> [error |-> got.message]])
       ELSE IF got.value = NULL
       THEN return(i, [status |-> 404,
                       body |-> [error |-> Str("Instagram profile not found")]])
       ELSE await(i, IF got.value.profile_pic_url # NULL THEN "download" ELSE "upsert",
                  [frame[i] EXCEPT
                      !.profileInfo = got.value,
                      !.profile = newProfile(got.value, frame[i].usernameFormatted, clock)])
    /\ UNCHANGED <<clock, store, bucket>>

\* Lines 107-110 and 169-178: the picture download completes.
Download(i, res) ==
    /\ pc[i] = "download"
    /\ logged(i, "download", res)
    /\ LET got == downloadProfilePicture(frame[i].profileInfo.profile_pic_url, res) IN
       IF got.thrown
       THEN return(i, UnhandledRejection)
       ELSE await(i, IF got.value # NULL THEN "upload" ELSE "upsert",
                  [frame[i] EXCEPT !.profilePicture = got.value])
    /\ UNCHANGED <<clock, store, bucket>>

\* The upload step with the public-URL lookup throwing after the object was
\* written: the handler rejects once the bucket has changed.
Upload_thenThrows(i, error) ==
    /\ pc[i] = "upload"
    /\ logged(i, "upload", [error |-> error])
    /\ LET path == picturePath(frame[i].profile.id) IN
       IF error
       THEN /\ await(i, "upsert", frame[i])
            /\ UNCHANGED bucket
       ELSE /\ return(i, UnhandledRejection)
            /\ bucket' = upload(bucket, path, frame[i].profilePicture)
    /\ UNCHANGED <<clock, store>>

\* Lines 113-123: the upload to the bucket completes.
Upload(i, error) ==
    /\ pc[i] = "upload"
    /\ logged(i, "upload", [error |-> error])
    /\ LET path == picturePath(frame[i].profile.id) IN
       IF error
       THEN /\ await(i, "upsert", frame[i])
            /\ UNCHANGED bucket
       ELSE /\ await(i, "upsert",
                     [frame[i] EXCEPT !.profile = withPicture(@, getPublicUrl(path))])
            /\ bucket' = upload(bucket, path, frame[i].profilePicture)
    /\ UNCHANGED <<clock, store>>

\* Lines 127-136: the upsert completes and the profile is returned.
Upsert(i, error) ==
    /\ pc[i] = "upsert"
    /\ logged(i, "upsert", [error |-> error])
    /\ store' = IF error THEN store ELSE upsert(store, frame[i].profile, "id")
    /\ return(i, [status |-> 200, body |-> frame[i].profile])
    /\ UNCHANGED <<clock, bucket>>

\* The response has been sent; the execution context takes the next request.
Release(i) ==
    /\ pc[i] = "done"
    /\ pc' = [pc EXCEPT ![i] = "idle"]
    /\ log' = [log EXCEPT ![i] = NoLog]
    /\ response' = [response EXCEPT ![i] = NULL]
    /\ UNCHANGED <<clock, store, bucket, frame>>

Next ==
    \/ Tick
    \/ \E i \in Invocations : Release(i)
    \/ \E i \in Invocations, username \in UsernameInputs : Receive(i, username)
    \/ \E i \in Invocations, fails \in BOOLEAN : CacheRead(i, fails)
    \/ \E i \in Invocations, res \in UpstreamResults : FetchUpstream(i, res)
    \/ \E i \in Invocations, res \in DownloadResults : Download(i, res)
    \/ \E i \in Invocations, error \in BOOLEAN : Upload(i, error)
    \/ \E i \in Invocations, error \in BOOLEAN : Upsert(i, error)

Spec == Init /\ [][Next]_vars

\* Lines 29-39 alone: one execution context formats and validates every
\* username string and answers the invalid ones.
NextUsername ==
    \/ \E username \in UsernameStrings : Receive(1, username)
    \/ Release(1)

SpecUsername == Init /\ [][NextUsername]_vars

TypeOK ==
    /\ clock \in Times
    /\ \A r \in store : DOMAIN r = Columns
    /\ \A i \in Invocations :
          pc[i] \in {"idle", "read", "fetch", "download", "upload", "upsert", "done"}

(***************************************************************************)
(* Vocabulary of the properties.                                           *)
(***************************************************************************)
Done(i) == pc[i] = "done"

\* Invocation i has just returned its response in this step.
Returns(i) == pc[i] # "done" /\ pc'[i] = "done"

\* The cache read of invocation i has just completed in this step.
ReadCompletes(i) == pc[i] = "read" /\ pc'[i] # "read"

\* The provider answered invocation i with a parsed payload.
UpstreamSucceeded(l) ==
    /\ Len(l.upstream) = 1
    /\ l.upstream[1].kind = "response"
    /\ l.upstream[1].status = 200
    /\ l.upstream[1].body # NULL

\* The picture download or the upload of invocation i failed.
DownloadFailed(l) ==
    /\ Len(l.download) = 1
    /\ \/ l.download[1].kind = "rejected"
       \/ l.download[1].status # 200
UploadFailed(l) == Len(l.upload) = 1 /\ l.upload[1].error

NotFoundBody == [error |-> Str("Instagram profile not found")]
InvalidBody == [error |-> Str("Invalid Instagram username")]

(***************************************************************************)
(* C1. When the cache read of a valid username returns a record whose age  *)
(* now - updated_at is below the TTL of 30 days, the handler returns 200   *)
(* with exactly the stored record plus cached: true, and has made no       *)
(* provider call.                                                          *)
(***************************************************************************)
C1_FreshRecordServedFromCache ==
    [][\A i \in Invocations :
          (/\ ReadCompletes(i)
           /\ log'[i].read[1].data # NULL
           /\ frame[i].now - log'[i].read[1].data.updated_at.iso < 30)
          => /\ pc'[i] = "done"
             /\ log'[i].read[1].data \in store
             /\ response'[i].status = 200
             /\ DOMAIN response'[i].body = Columns \cup {"cached"}
             /\ response'[i].body.cached = TRUE
             /\ \A c \in Columns : response'[i].body[c] = log'[i].read[1].data[c]
             /\ log'[i].upstream = <<>>]_vars

\* A record written on day 30 is served from cache on day 31.
C1_Witness ==
    \E i \in Invocations :
        /\ Done(i)
        /\ clock = 31
        /\ log[i].read # <<>> /\ log[i].read[1].data # NULL
        /\ log[i].read[1].data.updated_at = toISOString(30)
        /\ response[i].status = 200
        /\ "cached" \in DOMAIN response[i].body
        /\ log[i].upstream = <<>>

(***************************************************************************)
(* C2. When the cache read returns a stale record (age of 30 days or       *)
(* more), the handler calls the provider; and when that call succeeds, the *)
(* 200 response body carries cached: false and an updated_at taken during  *)
(* this invocation.                                                        *)
(***************************************************************************)
C2_StaleRecordRefreshed ==
    [][\A i \in Invocations :
          /\ (/\ ReadCompletes(i)
              /\ log'[i].read[1].data # NULL
              /\ frame[i].now - log'[i].read[1].data.updated_at.iso >= 30)
             => pc'[i] = "fetch"
          /\ (/\ Returns(i)
              /\ frame[i].cached # NULL
              /\ UpstreamSucceeded(log'[i])
              /\ response'[i].status = 200)
             => /\ "cached" \in DOMAIN response'[i].body
                /\ response'[i].body.cached = FALSE
                /\ response'[i].body.updated_at.iso >= frame[i].now
                /\ response'[i].body.updated_at.iso <= clock]_vars

(***************************************************************************)
(* C3. When the picture download or the upload fails, the response is 200  *)
(* and profile_pic_url of the returned record, and of the record the       *)
(* upsert stored, is the provider's original picture URL.                  *)
(***************************************************************************)
C3_MirrorFailureKeepsProviderUrl ==
    [][\A i \in Invocations :
          (Returns(i) /\ (DownloadFailed(log'[i]) \/ UploadFailed(log'[i])))
          => /\ response'[i].status = 200
             /\ "profile_pic_url" \in DOMAIN response'[i].body
             /\ response'[i].body.profile_pic_url = log'[i].upstream[1].body.profile_pic_url
             /\ (log'[i].upsert = <<[error |-> FALSE]>>)
                => \E r \in store' :
                      /\ r.id = response'[i].body.id
                      /\ r.profile_pic_url = log'[i].upstream[1].body.profile_pic_url]_vars

(***************************************************************************)
(* C4. Whatever the outcome of the picture download (non-success status,   *)
(* or the network call failing) and of the upload, the invocation goes on  *)
(* to the upsert and then returns its 200 response.                        *)
(***************************************************************************)
C4_MirroringNeverAborts ==
    \A i \in Invocations :
        (Done(i) /\ Len(log[i].download) = 1)
        => /\ Len(log[i].upsert) = 1
           /\ response[i].status = 200

(***************************************************************************)
(* C5. A username that fails validation after normalization gets a 400     *)
(* response with body {error: "Invalid Instagram username"}, and the       *)
(* invocation makes no cache read, provider call, download, upload or      *)
(* upsert.                                                                 *)
(***************************************************************************)
C5_InvalidUsernameRejected ==
    \A i \in Invocations :
        (pc[i] # "idle" /\ ~INSTAGRAM_USERNAME_REGEX_test(log[i].username))
        => /\ Done(i)
           /\ response[i] = [status |-> 400, body |-> InvalidBody]
           /\ log[i].read = <<>>
           /\ log[i].upstream = <<>>
           /\ log[i].download = <<>>
           /\ log[i].upload = <<>>
           /\ log[i].upsert = <<>>

\* "a__b" has been rejected.
C5_Witness ==
    \E i \in Invocations :
        /\ Done(i)
        /\ log[i].username = <<"a", "_", "_", "b">>
        /\ response[i].status = 400

(***************************************************************************)
(* C6. When the provider answers 404 (the username is valid and no fresh   *)
(* record was cached, or the provider would not have been called), the     *)
(* response is 404 with body {error: "Instagram profile not found"}.       *)
(***************************************************************************)
C6_ProviderNotFoundIs404 ==
    \A i \in Invocations :
        (/\ Done(i)
         /\ Len(log[i].upstream) = 1
         /\ log[i].upstream[1].kind = "response"
         /\ log[i].upstream[1].status = 404)
        => response[i] = [status |-> 404, body |-> NotFoundBody]

\* A username never seen before was answered 404 by the provider.
C6_Witness ==
    \E i \in Invocations :
        /\ Done(i)
        /\ store = {}
        /\ log[i].read = <<[data |-> NULL, error |-> FALSE]>>
        /\ Len(log[i].upstream) = 1
        /\ log[i].upstream[1].kind = "response"
        /\ log[i].upstream[1].status = 404
        /\ response[i].status = 404

(***************************************************************************)
(* C7. When the provider answers a non-success status other than 404, or   *)
(* the provider call itself fails, the response is 500 with a JSON error   *)
(* body that carries the upstream status and reason.                       *)
(***************************************************************************)
UpstreamFailed(l) ==
    /\ Len(l.upstream) = 1
    /\ \/ l.upstream[1].kind = "rejected"
       \/ /\ l.upstream[1].kind = "response"
          /\ l.upstream[1].status # 404
          /\ ~(l.upstream[1].status >= 200 /\ l.upstream[1].status <= 299)

CarriesStatusAndReason(body, res) ==
    /\ DOMAIN body = {"error"}
    /\ {"status", "reason"} \subseteq DOMAIN body.error
    /\ res.kind = "response"
    /\ body.error.status = res.status
    /\ body.error.reason = statusText(res.status)

C7_UpstreamErrorCarriesStatus ==
    \A i \in Invocations :
        (Done(i) /\ UpstreamFailed(log[i]))
        => /\ response[i].status = 500
           /\ CarriesStatusAndReason(response[i].body, log[i].upstream[1])

\* C7 as amended: the response is 500 with a JSON error body in both cases;
\* the body carries the upstream status and reason when the provider answered
\* a non-success status other than 404, and only the message of the thrown
\* error when the provider call itself failed.
C7_UpstreamErrorIs500 ==
    \A i \in Invocations :
        (Done(i) /\ UpstreamFailed(log[i]))
        => /\ response[i].status = 500
           /\ DOMAIN response[i].body = {"error"}
           /\ IF log[i].upstream[1].kind = "response"
              THEN CarriesStatusAndReason(response[i].body, log[i].upstream[1])
              ELSE DOMAIN response[i].body.error = {"text"}

\* The provider has answered 503 to one request and the call of another failed.
C7_Witness ==
    \E i, j \in Invocations :
        /\ Done(i) /\ Done(j)
        /\ log[i].upstream = <<[kind |-> "response", status |-> 503, body |-> NULL]>>
        /\ log[j].upstream = <<[kind |-> "rejected"]>>
        /\ response[i].status = 500
        /\ response[j].status = 500

(***************************************************************************)
(* C8. Whenever the provider call succeeded, the response is 200 and       *)
(* carries the freshly fetched profile data, whether or not the upsert     *)
(* succeeded.                                                              *)
(***************************************************************************)
FetchedFields ==
    { "full_name", "biography", "external_url", "is_private", "is_verified", "is_business" }

C8_UpsertFailureStill200 ==
    \A i \in Invocations :
        (Done(i) /\ UpstreamSucceeded(log[i]))
        => /\ response[i].status = 200
           /\ response[i].body.id = log[i].upstream[1].body.pk
           /\ \A f \in FetchedFields : response[i].body[f] = log[i].upstream[1].body[f]

(***************************************************************************)
(* C9. When the cache read returns an error the invocation calls the       *)
(* provider as on a miss, and the response status is determined by the     *)
(* provider's outcome alone: 200 on a payload, 404 on not-found, 500       *)
(* otherwise.                                                              *)
(***************************************************************************)
C9_CacheReadErrorNonFatal ==
    \A i \in Invocations :
        (Done(i) /\ log[i].read # <<>> /\ log[i].read[1].error)
        => /\ Len(log[i].upstream) = 1
           /\ response[i].status =
                 IF UpstreamSucceeded(log[i]) THEN 200
                 ELSE IF UpstreamFailed(log[i]) \/ log[i].upstream[1].status = 200 THEN 500
                 ELSE 404

(***************************************************************************)
(* C10. The table never holds two records with the same id: a refresh of   *)
(* an id that is already stored replaces its record.                       *)
(***************************************************************************)
C10_OneRecordPerId ==
    \A r1, r2 \in store : r1.id = r2.id => r1 = r2

\* An invocation read a stored record, fetched the same id again and its
\* upsert succeeded: the table holds the id once, with the later updated_at.
C10_Witness ==
    \E i \in Invocations :
        /\ Done(i)
        /\ log[i].read # <<>> /\ log[i].read[1].data # NULL
        /\ log[i].upsert = <<[error |-> FALSE]>>
        /\ response[i].body.id = log[i].read[1].data.id
        /\ \E r \in store :
              /\ r.id = response[i].body.id
              /\ r.updated_at.iso > log[i].read[1].data.updated_at.iso

(***************************************************************************)
(* C11. Overlapping invocations for one username all fetch and upsert,     *)
(* with no locking or versioning, and the stored record of the id equals   *)
(* the record written by the invocation whose upsert executed last: when   *)
(* an invocation that missed the cache upserts over a record another       *)
(* invocation stored in the meantime, the stored record becomes the        *)
(* record it wrote (a field the record does not carry counting as null).   *)
(***************************************************************************)
\* Field f of a JSON object, null when the object does not carry it.
Field(obj, f) == IF f \in DOMAIN obj THEN obj[f] ELSE NULL

\* Invocation i upserts successfully in this step.
UpsertSucceeds(i) ==
    pc[i] = "upsert" /\ pc'[i] = "done" /\ log'[i].upsert = <<[error |-> FALSE]>>

C11_LastWriteWins ==
    [][\A i \in Invocations :
          (/\ UpsertSucceeds(i)
           /\ log[i].read = <<[data |-> NULL, error |-> FALSE]>>
           /\ \E r \in store :
                 r.username = frame[i].usernameFormatted /\ r.id = frame[i].profile.id)
          => \E r \in store' :
                /\ r.id = frame[i].profile.id
                /\ \A c \in Columns : r[c] = Field(frame[i].profile, c)]_vars

(***************************************************************************)
(* C12. Within one invocation every step happens at most once and in the   *)
(* order validate, read cache, fetch upstream, download, upload, upsert,   *)
(* respond: a step is only reached after the one before it completed, the  *)
(* upsert only after a successful upstream fetch, and no external call is  *)
(* repeated.                                                               *)
(***************************************************************************)
C12_StrictlySequential ==
    \A i \in Invocations :
        LET l == log[i] IN
        /\ \A call \in {"read", "upstream", "download", "upload", "upsert"} :
              Len(l[call]) <= 1
        /\ l.read # <<>> => (pc[i] # "idle" /\ INSTAGRAM_USERNAME_REGEX_test(l.username))
        /\ pc[i] = "read" <=> (pc[i] \notin {"idle", "done"} /\ l.read = <<>>)
        /\ l.upstream # <<>> => (l.read # <<>> /\ pc[i] \notin {"read"})
        /\ pc[i] = "fetch" <=> (l.read # <<>> /\ l.upstream = <<>> /\ pc[i] # "done")
        /\ l.download # <<>>
              => (UpstreamSucceeded(l) /\ l.upstream[1].body.profile_pic_url # NULL)
        /\ pc[i] = "download" <=> (/\ UpstreamSucceeded(l)
                                   /\ l.upstream[1].body.profile_pic_url # NULL
                                   /\ l.download = <<>>)
        /\ l.upload # <<>> => l.download = <<[kind |-> "response", status |-> 200]>>
        /\ pc[i] = "upload" <=> (/\ l.download = <<[kind |-> "response", status |-> 200]>>
                                 /\ l.upload = <<>>)
        /\ l.upsert # <<>>
              => /\ UpstreamSucceeded(l)
                 /\ l.upstream[1].body.profile_pic_url # NULL => l.download # <<>>
                 /\ l.download = <<[kind |-> "response", status |-> 200]>> => l.upload # <<>>
                 /\ pc[i] = "done"
        /\ response[i] # NULL <=> pc[i] = "done"

\* An invocation went through every step once and responded.
C12_Witness ==
    \E i \in Invocations :
        /\ Done(i)
        /\ \A call \in {"read", "upstream", "download", "upload", "upsert"} :
              Len(log[i][call]) = 1
        /\ response[i].status = 200

(***************************************************************************)
(* C13. When the fetched profile has a picture URL and the download and    *)
(* the upload both succeed, the image is stored under the key              *)
(* <id>/profile_pic.jpg, replacing any object already there, and           *)
(* profile_pic_url of the returned record and of the upserted record is    *)
(* the bucket's public URL of that object, not the provider's URL.         *)
(***************************************************************************)
PublicPictureUrl(id) ==
    [host |-> "instagram_profile_pictures",
     path |-> [dir |-> id, file |-> "profile_pic.jpg"]]

C13_MirroredPictureUrl ==
    [][\A i \in Invocations :
          /\ (pc[i] = "upload" /\ pc'[i] = "upsert" /\ ~log'[i].upload[1].error)
             => LET at == { o \in bucket' :
                              o.path = [dir |-> frame[i].profile.id,
                                        file |-> "profile_pic.jpg"] } IN
                /\ Cardinality(at) = 1
                /\ \A o \in at : o.blob = frame[i].profilePicture
                /\ \A o \in bucket : o \notin at => o \in bucket'
          /\ (Returns(i) /\ log'[i].upload = <<[error |-> FALSE]>>)
             => /\ response'[i].status = 200
                /\ "profile_pic_url" \in DOMAIN response'[i].body
                /\ response'[i].body.profile_pic_url
                      = PublicPictureUrl(log'[i].upstream[1].body.pk)
                /\ response'[i].body.profile_pic_url
                      # log'[i].upstream[1].body.profile_pic_url
                /\ log'[i].upsert = <<[error |-> FALSE]>>
                   => \E r \in store' :
                         /\ r.id = log'[i].upstream[1].body.pk
                         /\ r.profile_pic_url
                               = PublicPictureUrl(log'[i].upstream[1].body.pk)]_vars

\* A picture was mirrored a second time over the stored object and the
\* response carries the public URL.
C13_Witness ==
    \E i \in Invocations :
        /\ Done(i)
        /\ log[i].read # <<>> /\ log[i].read[1].data # NULL
        /\ log[i].read[1].data.profile_pic_url = PublicPictureUrl(1)
        /\ log[i].upload = <<[error |-> FALSE]>>
        /\ log[i].upsert = <<[error |-> FALSE]>>
        /\ response[i].body.profile_pic_url = PublicPictureUrl(1)
        /\ Cardinality(bucket) = 1

(***************************************************************************)
(* C14. The validator accepts a normalized username exactly when it is a   *)
(* non-empty string of lowercase letters, digits, '_' and '.' that is not  *)
(* all digits, has no two consecutive characters from {'_', '.'} and       *)
(* neither starts nor ends with '.'.  "john__doe", "123", ".abc" and       *)
(* "abc." are rejected; "John.Doe" normalizes to "john.doe" and is         *)
(* accepted.                                                               *)
(***************************************************************************)
Separators == {"_", "."}

Acceptable(u) ==
    /\ Len(u) > 0
    /\ \A k \in 1..Len(u) : u[k] \in Lower \cup Digits \cup Separators
    /\ \E k \in 1..Len(u) : u[k] \notin Digits
    /\ \A k \in 1..Len(u) : k < Len(u) => ~(u[k] \in Separators /\ u[k + 1] \in Separators)
    /\ u[1] # "."
    /\ u[Len(u)] # "."

Rejected(i) == pc[i] = "done" /\ response[i] = [status |-> 400, body |-> InvalidBody]

C14_ValidatorAcceptsExactly ==
    \A i \in Invocations :
        pc[i] # "idle"
        => /\ Rejected(i) <=> ~Acceptable(log[i].username)
           /\ ~Rejected(i) => pc[i] = "read"
           /\ log[i].username \in
                 { <<"j", "o", "h", "n", "_", "_", "d", "o", "e">>, <<"1", "2", "3">>,
                   <<".", "a", "b", "c">>, <<"a", "b", "c", ".">> }
              => Rejected(i)
           /\ log[i].username = <<"j", "o", "h", "n", ".", "d", "o", "e">> => ~Rejected(i)

\* "John.Doe" was received, normalized to "john.doe", and passed validation.
C14_Witness ==
    /\ pc[1] = "read"
    /\ log[1].username = <<"j", "o", "h", "n", ".", "d", "o", "e">>
    /\ frame[1].usernameFormatted = log[1].username

(***************************************************************************)
(* C15. Normalization is idempotent: normalizing the normalized username   *)
(* of any request, in particular of one that matches the validation        *)
(* pattern, gives it back unchanged.                                       *)
(***************************************************************************)
C15_NormalizationIdempotent ==
    \A i \in Invocations :
        pc[i] # "idle" => formatUsername(log[i].username) = log[i].username

\* A three-character username that matches the pattern was normalized.
C15_Witness ==
    /\ pc[1] = "read"
    /\ Len(log[1].username) = MaxLen
    /\ INSTAGRAM_USERNAME_REGEX_test(log[1].username)
    /\ formatUsername(log[1].username) = log[1].username

(***************************************************************************)
(* C16. The freshness test is strict: a cached record whose age            *)
(* now - updated_at is exactly the TTL of 30 days is stale and the         *)
(* provider is called, and a record is returned from cache only when its   *)
(* age is strictly below the TTL.                                          *)
(***************************************************************************)
C16_FreshnessIsStrict ==
    [][\A i \in Invocations :
          (ReadCompletes(i) /\ log'[i].read[1].data # NULL)
          => LET age == frame[i].now - log'[i].read[1].data.updated_at.iso IN
             /\ age = 30 => (pc'[i] = "fetch" /\ response'[i] = NULL)
             /\ pc'[i] = "done" => age < 30]_vars

\* An invocation read a record aged exactly 30 days and is calling the provider.
C16_Witness ==
    \E i \in Invocations :
        /\ pc[i] = "fetch"
        /\ frame[i].cached # NULL
        /\ frame[i].now - frame[i].cached.updated_at.iso = 30

(***************************************************************************)
(* C17. Once a record for username u has been fetched and stored, every    *)
(* invocation for u whose read happens while that record is younger than   *)
(* the TTL (the read itself not failing) is served from cache with         *)
(* cached: true and calls no provider, also when the table holds a record  *)
(* with another id that carries the same username.                         *)
(***************************************************************************)
C17_CacheEffective ==
    [][\A i \in Invocations :
          LET match == { r \in store : r.username = frame[i].usernameFormatted } IN
          (/\ ReadCompletes(i)
           /\ \E r \in match : /\ frame[i].now - r.updated_at.iso >= 0
                               /\ frame[i].now - r.updated_at.iso < 30
           /\ ~(Cardinality(match) = 1 /\ log'[i].read[1].error))
          => /\ pc'[i] = "done"
             /\ response'[i].status = 200
             /\ "cached" \in DOMAIN response'[i].body
             /\ response'[i].body.cached = TRUE
             /\ log'[i].upstream = <<>>]_vars

(***************************************************************************)
(* C18. Under interleaved invocations for one id the updated_at of the     *)
(* stored record never decreases.                                          *)
(***************************************************************************)
C18_UpdatedAtNeverDecreases ==
    [][\A r \in store : \A r2 \in store' :
          r2.id = r.id => r2.updated_at.iso >= r.updated_at.iso]_vars

\* C18 as amended: an upsert sets the stored updated_at to the instant its
\* invocation took right after the provider call, which lies between the
\* invocation's arrival and the write; so the stored updated_at does not
\* decrease when the stored value is no later than the writer's arrival, and
\* can only decrease when the stored record was fetched by an overlapping
\* invocation after the writer arrived.
C18_UpdatedAtLastWriteWins ==
    [][\A i \in Invocations :
          UpsertSucceeds(i)
          => /\ frame[i].profile.updated_at.iso >= frame[i].now
             /\ frame[i].profile.updated_at.iso <= clock
             /\ \E r2 \in store' :
                   /\ r2.id = frame[i].profile.id
                   /\ r2.updated_at = frame[i].profile.updated_at
                   /\ \A r \in store :
                         (r.id = r2.id /\ r.updated_at.iso <= frame[i].now)
                         => r2.updated_at.iso >= r.updated_at.iso]_vars

\* Two invocations stored the same id with different updated_at, and the
\* table holds the earlier one.
C18_Witness ==
    \E i, j \in Invocations :
        /\ Done(i) /\ Done(j)
        /\ log[i].upsert = <<[error |-> FALSE]>>
        /\ log[j].upsert = <<[error |-> FALSE]>>
        /\ response[i].body.id = response[j].body.id
        /\ response[i].body.updated_at.iso < response[j].body.updated_at.iso
        /\ \E r \in store :
              r.id = response[i].body.id /\ r.updated_at = response[i].body.updated_at

(***************************************************************************)
(* C19. An invocation that ends with a cache hit or with a 400, 404 or 500 *)
(* response has written neither the table nor the bucket; the table and    *)
(* the bucket change only in the upload or upsert step of an invocation    *)
(* whose provider call succeeded; and no step removes a stored record.     *)
(***************************************************************************)
C19_OnlySuccessfulFetchWrites ==
    [][/\ \A i \in Invocations :
             (/\ Returns(i)
              /\ \/ response'[i].status \in {400, 404, 500}
                 \/ "cached" \in DOMAIN response'[i].body)
             => /\ store' = store
                /\ bucket' = bucket
                /\ log'[i].upload = <<>>
                /\ log'[i].upsert = <<>>
       /\ (store' # store \/ bucket' # bucket)
             => \E i \in Invocations :
                   /\ pc[i] \in {"upload", "upsert"}
                   /\ pc'[i] # pc[i]
                   /\ UpstreamSucceeded(log[i])
                   /\ pc'[i] = "done" => response'[i].status = 200
       /\ \A r \in store : \E r2 \in store' : r2.id = r.id
       /\ \A o \in bucket : \E o2 \in bucket' : o2.path = o.path]_vars

\* With a record stored and a picture mirrored, requests have ended with a
\* cache hit and with a 404.
C19_Witness ==
    /\ store # {}
    /\ bucket # {}
    /\ \E i, j \in Invocations :
          /\ Done(i) /\ Done(j)
          /\ response[i].status = 404
          /\ response[j].status = 200
          /\ "cached" \in DOMAIN response[j].body

(***************************************************************************)
(* C20. When an invocation fetches a profile and its upsert succeeds, the  *)
(* ProfileRecord fields of its response equal those of the response a      *)
(* cache hit on the stored record gives next, whatever the outcome of the  *)
(* picture mirroring (a field the response does not carry counting as      *)
(* null).                                                                  *)
(***************************************************************************)
C20_MissThenHitRoundTrip ==
    [][\A i \in Invocations :
          UpsertSucceeds(i)
          => \E r \in store' :
                /\ r.id = response'[i].body.id
                /\ \A f \in Columns :
                      cachedBody(r)[f] = Field(response'[i].body, f)]_vars

====
